---- MODULE Spec2Model ----
(***************************************************************************)
(* Kubernetes lifecycle driver of devpod (pkg/driver/kubernetes/run.go):   *)
(* RunDevContainer, StartDevContainer and the shared runContainer routine, *)
(* run by concurrent callers against one orchestrator (kubectl) that holds *)
(* the persistent volume claims, the pods and the service accounts.        *)
(***************************************************************************)
EXTENDS Integers, Sequences, FiniteSets, TLC

\* ------------------------------------------------------------------ bounds
\* invocations of RunDevContainer and StartDevContainer in one behaviour
MaxCalls == 3

\* the concurrent callers of the driver
Procs == {"c1", "c2"}

None == "none"

\* a nil pointer; a non-nil pointer to v is <<v>>
Nil == <<>>

\* ------------------------------------------------------------------ inputs
DevContainerInfoAnnotation == "devpod.sh/info"

DevPodLabels == ("devpod.sh/created" :> "true")

DockerIDLabel == "dev.containers.id"

mBind == [Type |-> "bind", Source |-> "/data", Target |-> "/mnt/data"]
mVolume == [Type |-> "volume", Source |-> "cache", Target |-> "/cache"]
mBindLib == [Type |-> "bind", Source |-> "/lib/", Target |-> "/mnt/lib/"]
mVolumeAnon == [Type |-> "volume", Source |-> "", Target |-> "/anon"]
mTmpfs == [Type |-> "tmpfs", Source |-> "", Target |-> "/scratch"]
mVolumeThree == [Type |-> "volume", Source |-> "3", Target |-> "/three"]

\* a mount string "k=v,k=v,..." as the sequence of its comma separated
\* segments, each split at "="
wsMountOk == << <<"type", "bind">>, <<"source", "/home/u/proj">>, <<"target", "/ws">> >>
wsMountDst == << <<"src", "/home/u/other">>, <<"dst", "/work">>, <<"consistency", "cached">> >>
wsMountNoTarget == << <<"type", "bind">>, <<"source", "/home/u/proj">> >>

mergedA == [Mounts |-> <<mBind>>, CapAdd |-> <<>>, Privileged |-> FALSE]
mergedB == [Mounts |-> <<mTmpfs, mVolume, mBind, mVolumeAnon, mBindLib, mVolumeThree>>,
            CapAdd |-> <<"SYS_PTRACE">>, Privileged |-> TRUE]

labelsA == << <<"dev.containers.id", "a">>, <<"owner", "u">> >>
labelsNoId == << <<"owner", "u">> >>

\* the argument tuples a caller passes to RunDevContainer
RunArgs ==
  { [parsedConfig |-> [Origin |-> "/home/u/proj/.devcontainer.json"],
     mergedConfig |-> mergedA, imageName |-> "img:1",
     workspaceMount |-> wsMountOk, labels |-> labelsA,
     imageDetails |-> [User |-> "root"]],
    [parsedConfig |-> [Origin |-> "/home/u/other/.devcontainer.json"],
     mergedConfig |-> mergedB, imageName |-> "img:2",
     workspaceMount |-> wsMountDst, labels |-> labelsA,
     imageDetails |-> [User |-> "dev"]],
    [parsedConfig |-> [Origin |-> "/home/u/proj/.devcontainer.json"],
     mergedConfig |-> mergedA, imageName |-> "img:1",
     workspaceMount |-> wsMountNoTarget, labels |-> labelsA,
     imageDetails |-> [User |-> "root"]],
    [parsedConfig |-> [Origin |-> "/home/u/proj/.devcontainer.json"],
     mergedConfig |-> mergedA, imageName |-> "img:1",
     workspaceMount |-> wsMountOk, labels |-> labelsNoId,
     imageDetails |-> [User |-> "root"]] }

\* the ids a caller passes to StartDevContainer
Ids == {"devpod-a"}

\* the driver configuration k.namespace / k.config, fixed at construction
DriverConfigs ==
  { [namespace |-> "", CreateNamespace |-> "false", ServiceAccount |-> "",
     NodeSelector |-> <<>>],
    [namespace |-> "devpod", CreateNamespace |-> "true", ServiceAccount |-> "devpod-sa",
     NodeSelector |-> << <<"disk", "ssd">> >>],
    [namespace |-> "devpod", CreateNamespace |-> "false", ServiceAccount |-> "",
     NodeSelector |-> << <<"disk">> >>] }

\* ------------------------------------------------------------ pure helpers
Digits == <<"0", "1", "2", "3", "4", "5", "6", "7", "8", "9">>

RECURSIVE Itoa(_)
Itoa(n) == IF n < 10 THEN Digits[n + 1]
           ELSE Itoa(n \div 10) \o Digits[(n % 10) + 1]

RECURSIVE ParseMountFrom(_, _)
ParseMountFrom(segs, acc) ==
  IF segs = <<>> THEN acc
  ELSE LET key == Head(segs)[1]
           val == Head(segs)[2]
           nxt == IF key = "src" \/ key = "source" THEN [acc EXCEPT !.Source = val]
                  ELSE IF key = "dst" \/ key = "destination" \/ key = "target"
                       THEN [acc EXCEPT !.Target = val]
                  ELSE IF key = "type" THEN [acc EXCEPT !.Type = val]
                  ELSE acc
       IN ParseMountFrom(Tail(segs), nxt)

ParseMount(str) == ParseMountFrom(str, [Type |-> "", Source |-> "", Target |-> ""])

RECURSIVE ListToObject(_, _)
ListToObject(labels, key) ==
  IF labels = <<>> THEN None
  ELSE LET rest == ListToObject(Tail(labels), key)
       IN IF rest # None THEN rest
          ELSE IF Head(labels)[1] = key THEN Head(labels)[2] ELSE None

\* getID: [ok, id]
getID(labels) ==
  LET v == ListToObject(labels, DockerIDLabel)
  IN IF v = None THEN [ok |-> FALSE, id |-> ""]
     ELSE [ok |-> TRUE, id |-> "devpod-" \o v]

\* parseLabels: every segment must be key=value
parseLabels(sel) ==
  IF \E i \in 1..Len(sel) : Len(sel[i]) # 2 THEN [ok |-> FALSE, labels |-> {}]
  ELSE [ok |-> TRUE, labels |-> {sel[i] : i \in 1..Len(sel)}]

getVolumeMount(idx, mount) ==
  LET subPath == IF mount.Type = "volume" /\ mount.Source # ""
                 THEN mount.Source ELSE Itoa(idx)
  IN [Name |-> "devpod", MountPath |-> mount.Target, SubPath |-> "devpod/" \o subPath]

\* MountLoop numbering the slots by the mounts kept so far
RECURSIVE MountLoopDenseSlots(_, _, _, _)
MountLoopDenseSlots(mounts, idx, copyFromLocal, volumeMounts) ==
  IF idx > Len(mounts) THEN [copyFromLocal |-> copyFromLocal, volumeMounts |-> volumeMounts]
  ELSE LET mount == mounts[idx]
           volumeMount == getVolumeMount(Len(volumeMounts), mount)
       IN IF mount.Type = "bind"
          THEN MountLoopDenseSlots(mounts, idx + 1, Append(copyFromLocal, mount),
                                   Append(volumeMounts, volumeMount))
          ELSE IF mount.Type = "volume"
          THEN MountLoopDenseSlots(mounts, idx + 1, copyFromLocal,
                                   Append(volumeMounts, volumeMount))
          ELSE MountLoopDenseSlots(mounts, idx + 1, copyFromLocal, volumeMounts)

\* MountLoop without the arm that skips the unsupported types
RECURSIVE MountLoopKeepAll(_, _, _, _)
MountLoopKeepAll(mounts, idx, copyFromLocal, volumeMounts) ==
  IF idx > Len(mounts) THEN [copyFromLocal |-> copyFromLocal, volumeMounts |-> volumeMounts]
  ELSE LET mount == mounts[idx]
           volumeMount == getVolumeMount(idx, mount)
       IN IF mount.Type = "bind"
          THEN MountLoopKeepAll(mounts, idx + 1, Append(copyFromLocal, mount),
                                Append(volumeMounts, volumeMount))
          ELSE MountLoopKeepAll(mounts, idx + 1, copyFromLocal,
                                Append(volumeMounts, volumeMount))

\* MountLoop queueing the volume mounts for the copy as well
RECURSIVE MountLoopCopyAll(_, _, _, _)
MountLoopCopyAll(mounts, idx, copyFromLocal, volumeMounts) ==
  IF idx > Len(mounts) THEN [copyFromLocal |-> copyFromLocal, volumeMounts |-> volumeMounts]
  ELSE LET mount == mounts[idx]
           volumeMount == getVolumeMount(idx, mount)
       IN IF mount.Type = "bind" \/ mount.Type = "volume"
          THEN MountLoopCopyAll(mounts, idx + 1, Append(copyFromLocal, mount),
                                Append(volumeMounts, volumeMount))
          ELSE MountLoopCopyAll(mounts, idx + 1, copyFromLocal, volumeMounts)

\* the loop over mergedConfig.Mounts of runContainer, from position idx on;
\* idx counts from 1, so that it is the slot idx+1 of the 0-based loop variable
RECURSIVE MountLoop(_, _, _, _)
MountLoop(mounts, idx, copyFromLocal, volumeMounts) ==
  IF idx > Len(mounts) THEN [copyFromLocal |-> copyFromLocal, volumeMounts |-> volumeMounts]
  ELSE LET mount == mounts[idx]
           volumeMount == getVolumeMount(idx, mount)
       IN IF mount.Type = "bind"
          THEN MountLoop(mounts, idx + 1, Append(copyFromLocal, mount),
                         Append(volumeMounts, volumeMount))
          ELSE IF mount.Type = "volume"
          THEN MountLoop(mounts, idx + 1, copyFromLocal, Append(volumeMounts, volumeMount))
          ELSE MountLoop(mounts, idx + 1, copyFromLocal, volumeMounts)

\* copyFromLocal and volumeMounts of runContainer
BuildMounts(workspaceMount, mergedConfig) ==
  LET mount == ParseMount(workspaceMount)
  IN MountLoop(mergedConfig.Mounts, 1, <<mount>>, <<getVolumeMount(0, mount)>>)

\* ------------------------------------------------------------------- state
VARIABLES
  k,            \* the driver configuration
  pvcs,         \* orchestrator: id -> <<DevContainerInfo of the claim>>, or Nil
  pods,         \* orchestrator: id -> <<pod manifest>>, or Nil
  serviceAccounts, \* orchestrator: names of the service accounts
  namespaces,   \* orchestrator: names of the namespaces
  copied,       \* id -> the mounts whose content was copied onto the volume, in order
  pc,           \* per caller: position in RunDevContainer / StartDevContainer
  fn,           \* per caller: "Run", "Start" or None
  id,           \* per caller: the id of the invocation
  args,         \* per caller: the inputs handed to runContainer
  initialize,   \* per caller: the initialize flag
  initContainer, \* per caller: the initContainer list of runContainer
  copyIdx,      \* per caller: position in copyFromLocal
  log,          \* per caller: the remote calls issued by the invocation, in order
  result,       \* per caller: the error returned, "nil" for success, None while running
  extFail,      \* per caller: a remote call of the invocation failed for external reasons
  retry,        \* per caller: the invocation follows a Run of the same id that failed at
                \* the readiness wait and left the claim and the pod in place
  calls         \* invocations started so far

vars == <<k, pvcs, pods, serviceAccounts, namespaces, copied, pc, fn, id, args,
          initialize, initContainer, copyIdx, log, result, extFail, retry, calls>>

orch == <<pvcs, pods, serviceAccounts, namespaces, copied>>

NoArgs == [parsedConfig |-> None, mergedConfig |-> None, imageName |-> None,
           workspaceMount |-> None, labels |-> None, imageDetails |-> None]

Init ==
  /\ k \in DriverConfigs
  /\ pvcs = [i \in Ids |-> Nil]
  /\ pods = [i \in Ids |-> Nil]
  /\ serviceAccounts = {}
  /\ namespaces = {}
  /\ copied = [i \in Ids |-> <<>>]
  /\ pc = [p \in Procs |-> "idle"]
  /\ fn = [p \in Procs |-> None]
  /\ id = [p \in Procs |-> None]
  /\ args = [p \in Procs |-> NoArgs]
  /\ initialize = [p \in Procs |-> FALSE]
  /\ initContainer = [p \in Procs |-> Nil]
  /\ copyIdx = [p \in Procs |-> 0]
  /\ log = [p \in Procs |-> <<>>]
  /\ result = [p \in Procs |-> None]
  /\ extFail = [p \in Procs |-> FALSE]
  /\ retry = [p \in Procs |-> FALSE]
  /\ calls = 0

Call(op, ok, arg) == [op |-> op, ok |-> ok, arg |-> arg]

\* --------------------------------------------- decisions of RunDevContainer
\* line 52
NamespaceWanted(cfg) == cfg.namespace # "" /\ cfg.CreateNamespace = "true"

\* lines 46-49 and 52: where RunDevContainer goes after getID
RunAfterGetID(r, cfg) ==
  IF ~r.ok THEN [pc |-> "done", result |-> "IdError"]
  ELSE IF NamespaceWanted(cfg) THEN [pc |-> "ns", result |-> None]
  ELSE [pc |-> "lookup", result |-> None]

\* RunAfterGetPvc with initialize starting out true
RunAfterGetPvcInitTrue(err, pvc) ==
  IF err THEN [pc |-> "done", result |-> "LookupError", initialize |-> TRUE]
  ELSE IF pvc = Nil THEN [pc |-> "createPvc", result |-> None, initialize |-> TRUE]
  ELSE [pc |-> "prepare", result |-> None, initialize |-> TRUE]

\* RunAfterGetPvc without the test for an existing claim
RunAfterGetPvcAlwaysCreate(err, pvc) ==
  IF err THEN [pc |-> "done", result |-> "LookupError", initialize |-> FALSE]
  ELSE [pc |-> "createPvc", result |-> None, initialize |-> FALSE]

\* AfterCreateNamespace returning the error
AfterCreateNamespaceFatal(err) ==
  IF err THEN [pc |-> "done", result |-> "CreateError"]
  ELSE [pc |-> "lookup", result |-> None]

\* lines 55-59: after kubectl create ns, whose error is logged and dropped
AfterCreateNamespace(err) == [pc |-> "lookup", result |-> None]

\* lines 62-66: after getDevContainerPvc
RunAfterGetPvc(err, pvc) ==
  IF err THEN [pc |-> "done", result |-> "LookupError", initialize |-> FALSE]
  ELSE IF pvc = Nil THEN [pc |-> "createPvc", result |-> None, initialize |-> FALSE]
  ELSE [pc |-> "prepare", result |-> None, initialize |-> FALSE]

\* RunAfterCreatePvc with the error dropped
RunAfterCreatePvcIgnoreErr(err) ==
  [pc |-> "prepare", result |-> None, initialize |-> TRUE]

\* lines 68-74: after createPersistentVolumeClaim
RunAfterCreatePvc(err) ==
  IF err THEN [pc |-> "done", result |-> "CreateError", initialize |-> FALSE]
  ELSE [pc |-> "prepare", result |-> None, initialize |-> TRUE]

\* StartAfterGetPvc creating the claim that is missing
StartAfterGetPvcCreate(err, containerInfo) ==
  IF err THEN [pc |-> "done", result |-> "LookupError"]
  ELSE IF containerInfo = Nil THEN [pc |-> "createPvc", result |-> None]
  ELSE [pc |-> "prepare", result |-> None]

\* -------------------------------------------- decisions of StartDevContainer
\* lines 260-265
StartAfterGetPvc(err, containerInfo) ==
  IF err THEN [pc |-> "done", result |-> "LookupError"]
  ELSE IF containerInfo = Nil THEN [pc |-> "done", result |-> "NotFoundError"]
  ELSE [pc |-> "prepare", result |-> None]

\* StartInputs that leaves the image name at its zero value
StartInputsNoImage(containerInfo, a) ==
  [parsedConfig |-> containerInfo[1].ParsedConfig,
   mergedConfig |-> containerInfo[1].MergedConfig,
   imageName |-> "",
   workspaceMount |-> containerInfo[1].WorkspaceMount,
   labels |-> a.labels,
   imageDetails |-> containerInfo[1].ImageDetails]

\* lines 267-276: the inputs StartDevContainer hands to runContainer
StartInputs(containerInfo, a) ==
  [parsedConfig |-> containerInfo[1].ParsedConfig,
   mergedConfig |-> containerInfo[1].MergedConfig,
   imageName |-> containerInfo[1].ImageName,
   workspaceMount |-> containerInfo[1].WorkspaceMount,
   labels |-> a.labels,
   imageDetails |-> containerInfo[1].ImageDetails]

\* StartInitialize with the flag set
StartInitializeTrue == TRUE

\* line 275: the initialize argument of StartDevContainer
StartInitialize == FALSE

\* line 77: the inputs RunDevContainer hands to runContainer
RunInputs(containerInfo, a) == a

\* AfterPrepare without the test of the workspace mount target
AfterPrepareNoValidation(mount, init, initErr, cfg) ==
  IF init /\ initErr THEN [pc |-> "done", result |-> "InitContainerError"]
  ELSE IF cfg.ServiceAccount # "" THEN [pc |-> "sa", result |-> None]
  ELSE [pc |-> "submit", result |-> None]

\* ------------------------------------------------- decisions of runContainer
\* lines 96-108 and 145: validation, init container, then the first remote call
AfterPrepare(mount, init, initErr, cfg) ==
  IF mount.Target = "" THEN [pc |-> "done", result |-> "ConfigError"]
  ELSE IF init /\ initErr THEN [pc |-> "done", result |-> "InitContainerError"]
  ELSE IF cfg.ServiceAccount # "" THEN [pc |-> "sa", result |-> None]
  ELSE [pc |-> "submit", result |-> None]

\* AfterCreateServiceAccount with the error dropped
AfterCreateServiceAccountIgnoreErr(err) == [pc |-> "submit", result |-> None]

\* lines 149-152
AfterCreateServiceAccount(err) ==
  IF err THEN [pc |-> "done", result |-> "CreateError"]
  ELSE [pc |-> "submit", result |-> None]

\* line 104: what getInitContainer may return to runContainer, a list of
\* containers (possibly empty) or an error
getInitContainer(mergedConfig, imageName) ==
  { [err |-> FALSE, containers |-> Nil],
    [err |-> FALSE, containers |-> <<[Name |-> "devpod-init", Image |-> imageName]>>],
    [err |-> TRUE, containers |-> Nil] }

\* InitContainerCall that does not look at initialize
InitContainerCallAlways(init, mergedConfig, imageName) ==
  getInitContainer(mergedConfig, imageName)

\* lines 102-108: initContainer stays nil unless initialize is set, and is
\* then whatever getInitContainer returns
InitContainerCall(init, mergedConfig, imageName) ==
  IF init THEN getInitContainer(mergedConfig, imageName)
  ELSE {[err |-> FALSE, containers |-> Nil]}

\* lines 126-132
Capabilities(mergedConfig) ==
  IF Len(mergedConfig.CapAdd) > 0 THEN <<[Add |-> mergedConfig.CapAdd]>> ELSE Nil

\* lines 157-199: the pod manifest
Pod(i, a, initContainers, cfg) ==
  [Name |-> i,
   Labels |-> DevPodLabels,
   ServiceAccountName |-> cfg.ServiceAccount,
   InitContainers |-> initContainers,
   Image |-> a.imageName,
   VolumeMounts |-> BuildMounts(a.workspaceMount, a.mergedConfig).volumeMounts,
   Capabilities |-> Capabilities(a.mergedConfig),
   Privileged |-> a.mergedConfig.Privileged,
   ClaimName |-> i]

\* AfterCreatePod with the error dropped
AfterCreatePodIgnoreErr(err) == [pc |-> "wait", result |-> None]

\* lines 218-221
AfterCreatePod(err) ==
  IF err THEN [pc |-> "done", result |-> "CreateError"]
  ELSE [pc |-> "wait", result |-> None]

\* AfterWait with the error dropped
AfterWaitIgnoreErr(err, init) ==
  IF init THEN [pc |-> "copy", result |-> None]
  ELSE [pc |-> "done", result |-> "nil"]

\* lines 225-231 and 243
AfterWait(err, init) ==
  IF err THEN [pc |-> "done", result |-> "StartupError"]
  ELSE IF init THEN [pc |-> "copy", result |-> None]
  ELSE [pc |-> "done", result |-> "nil"]

\* AfterCopy with the error dropped
AfterCopyIgnoreErr(err, idx, n) ==
  IF idx < n THEN [pc |-> "copy", result |-> None]
  ELSE [pc |-> "done", result |-> "nil"]

\* lines 232-243: after the copy of copyFromLocal[idx], n = len(copyFromLocal)
AfterCopy(err, idx, n) ==
  IF err THEN [pc |-> "done", result |-> "CopyError"]
  ELSE IF idx < n THEN [pc |-> "copy", result |-> None]
  ELSE [pc |-> "done", result |-> "nil"]

\* ------------------------------------------------------------- orchestrator
\* the DevContainerInfo createPersistentVolumeClaim attaches to the claim
DevContainerInfo(a) ==
  [ParsedConfig |-> a.parsedConfig,
   MergedConfig |-> a.mergedConfig,
   ImageDetails |-> a.imageDetails,
   ImageName |-> a.imageName,
   WorkspaceMount |-> a.workspaceMount,
   Labels |-> a.labels]

\* outcomes of a remote call that creates the resource `name`: a name that
\* exists is rejected, otherwise the call succeeds or fails for an outside reason
CreateOutcomes(exists) == IF exists THEN {"exists"} ELSE {"ok", "fail"}

\* outcomes of a remote call addressed to the pod `i`
PodOutcomes(i) == IF pods[i] = Nil THEN {"fail"} ELSE {"ok", "fail"}

\* a Run of the id i has returned the error of waitPodRunning, and the claim
\* and the pod it left are still there
FailedAtWait(i) ==
  /\ i \in Ids
  /\ pvcs[i] # Nil
  /\ pods[i] # Nil
  /\ \E q \in Procs : /\ pc[q] = "done" /\ fn[q] = "Run" /\ id[q] = i
                      /\ result[q] = "StartupError"

Goto(p, nxt) ==
  /\ pc' = [pc EXCEPT ![p] = nxt.pc]
  /\ result' = [result EXCEPT ![p] = nxt.result]

\* ------------------------------------------------------------------ actions
\* lines 35-59 up to the namespace test: a caller enters RunDevContainer
RunDevContainer(p, a) ==
  /\ pc[p] = "idle"
  /\ calls < MaxCalls
  /\ LET r == getID(a.labels)
     IN /\ Goto(p, RunAfterGetID(r, k))
        /\ id' = [id EXCEPT ![p] = IF r.ok THEN r.id ELSE None]
        /\ retry' = [retry EXCEPT ![p] = r.ok /\ FailedAtWait(r.id)]
  /\ fn' = [fn EXCEPT ![p] = "Run"]
  /\ args' = [args EXCEPT ![p] = a]
  /\ calls' = calls + 1
  /\ UNCHANGED <<k, orch, initialize, initContainer, copyIdx, log, extFail>>

\* lines 52-59: kubectl create ns; an error is logged and dropped
CreateNamespace(p) ==
  /\ pc[p] = "ns"
  /\ \E out \in CreateOutcomes(k.namespace \in namespaces) :
       /\ namespaces' = IF out = "ok" THEN namespaces \cup {k.namespace} ELSE namespaces
       /\ log' = [log EXCEPT ![p] = Append(@, Call("create ns", out = "ok", k.namespace))]
       /\ extFail' = [extFail EXCEPT ![p] = @ \/ out = "fail"]
       /\ Goto(p, AfterCreateNamespace(out # "ok"))
  /\ UNCHANGED <<k, pvcs, pods, serviceAccounts, copied, fn, id, args, initialize, initContainer,
                 copyIdx, retry, calls>>

\* lines 63-66 (Run) and 260-265 (Start): getDevContainerPvc and its test
GetDevContainerPvc(p) ==
  /\ pc[p] = "lookup"
  /\ \E out \in {"ok", "fail"} :
       LET info == pvcs[id[p]]
           run == RunAfterGetPvc(out = "fail", info)
           start == StartAfterGetPvc(out = "fail", info)
       IN /\ log' = [log EXCEPT ![p] =
                       Append(@, Call("get pvc", out = "ok", IF out = "ok" THEN info ELSE Nil))]
          /\ extFail' = [extFail EXCEPT ![p] = @ \/ out = "fail"]
          /\ IF fn[p] = "Run"
             THEN /\ Goto(p, run)
                  /\ initialize' = [initialize EXCEPT ![p] = run.initialize]
                  /\ args' = [args EXCEPT ![p] =
                                IF run.pc = "prepare" THEN RunInputs(info, @) ELSE @]
             ELSE /\ Goto(p, start)
                  /\ initialize' = [initialize EXCEPT ![p] = StartInitialize]
                  /\ args' = [args EXCEPT ![p] =
                                IF start.pc = "prepare" THEN StartInputs(info, @) ELSE @]
  /\ UNCHANGED <<k, orch, fn, id, initContainer, copyIdx, retry, calls>>

\* lines 68-74: createPersistentVolumeClaim and its test
CreatePersistentVolumeClaim(p) ==
  /\ pc[p] = "createPvc"
  /\ \E out \in CreateOutcomes(pvcs[id[p]] # Nil) :
       LET nxt == RunAfterCreatePvc(out # "ok")
       IN /\ pvcs' = IF out = "ok"
                     THEN [pvcs EXCEPT ![id[p]] = <<DevContainerInfo(args[p])>>] ELSE pvcs
          /\ log' = [log EXCEPT ![p] = Append(@, Call("create pvc", out = "ok", id[p]))]
          /\ extFail' = [extFail EXCEPT ![p] = @ \/ out = "fail"]
          /\ Goto(p, nxt)
          /\ initialize' = [initialize EXCEPT ![p] = nxt.initialize]
  /\ UNCHANGED <<k, pods, serviceAccounts, namespaces, copied, fn, id, args, initContainer,
                 copyIdx, retry, calls>>

\* lines 95-141: the part of runContainer before its first remote call
RunContainerPrepare(p) ==
  /\ pc[p] = "prepare"
  /\ \E r \in InitContainerCall(initialize[p], args[p].mergedConfig, args[p].imageName) :
       LET nxt == AfterPrepare(ParseMount(args[p].workspaceMount), initialize[p], r.err, k)
       IN /\ Goto(p, nxt)
          /\ initContainer' = [initContainer EXCEPT ![p] =
                                 IF nxt.pc = "done" THEN Nil ELSE r.containers]
  /\ UNCHANGED <<k, orch, fn, id, args, initialize, copyIdx, log, extFail, retry, calls>>

\* lines 143-153: createServiceAccount
CreateServiceAccount(p) ==
  /\ pc[p] = "sa"
  /\ \E out \in {"ok", "fail"} :
       /\ serviceAccounts' = IF out = "ok" THEN serviceAccounts \cup {k.ServiceAccount}
                             ELSE serviceAccounts
       /\ log' = [log EXCEPT ![p] = Append(@, Call("create sa", out = "ok", k.ServiceAccount))]
       /\ extFail' = [extFail EXCEPT ![p] = @ \/ out = "fail"]
       /\ Goto(p, AfterCreateServiceAccount(out = "fail"))
  /\ UNCHANGED <<k, pvcs, pods, namespaces, copied, fn, id, args, initialize, initContainer, copyIdx, retry, calls>>

\* lines 155-221: build the manifest, parse the node selector, kubectl create -f -
CreatePod(p) ==
  /\ pc[p] = "submit"
  /\ LET pod == Pod(id[p], args[p], initContainer[p], k)
     IN IF ~parseLabels(k.NodeSelector).ok
        THEN /\ Goto(p, [pc |-> "done", result |-> "ConfigError"])
             /\ UNCHANGED <<pods, log, extFail>>
        ELSE \E out \in CreateOutcomes(pods[id[p]] # Nil) :
               /\ pods' = IF out = "ok" THEN [pods EXCEPT ![id[p]] = <<pod>>] ELSE pods
               /\ log' = [log EXCEPT ![p] = Append(@, Call("create pod", out = "ok", pod))]
               /\ extFail' = [extFail EXCEPT ![p] = @ \/ out = "fail"]
               /\ Goto(p, AfterCreatePod(out # "ok"))
  /\ UNCHANGED <<k, pvcs, serviceAccounts, namespaces, copied, fn, id, args, initialize, initContainer,
                 copyIdx, retry, calls>>

\* lines 223-231: waitPodRunning
WaitPodRunning(p) ==
  /\ pc[p] = "wait"
  /\ \E out \in PodOutcomes(id[p]) :
       LET nxt == AfterWait(out = "fail", initialize[p])
       IN /\ log' = [log EXCEPT ![p] = Append(@, Call("wait pod", out = "ok", id[p]))]
          /\ extFail' = [extFail EXCEPT ![p] = @ \/ out = "fail"]
          /\ Goto(p, nxt)
          /\ copyIdx' = [copyIdx EXCEPT ![p] = IF nxt.pc = "copy" THEN 1 ELSE @]
  /\ UNCHANGED <<k, orch, fn, id, args, initialize, initContainer, retry, calls>>

\* lines 232-240: one iteration of the copy loop, kubectl cp of copyFromLocal[copyIdx]
CopyToPod(p) ==
  /\ pc[p] = "copy"
  /\ LET copyFromLocal == BuildMounts(args[p].workspaceMount, args[p].mergedConfig).copyFromLocal
         copyMount == copyFromLocal[copyIdx[p]]
     IN \E out \in PodOutcomes(id[p]) :
          LET nxt == AfterCopy(out = "fail", copyIdx[p], Len(copyFromLocal))
          IN /\ copied' = IF out = "ok" THEN [copied EXCEPT ![id[p]] = Append(@, copyMount)]
                          ELSE copied
             /\ log' = [log EXCEPT ![p] = Append(@, Call("cp", out = "ok", copyMount))]
             /\ extFail' = [extFail EXCEPT ![p] = @ \/ out = "fail"]
             /\ Goto(p, nxt)
             /\ copyIdx' = [copyIdx EXCEPT ![p] = IF nxt.pc = "copy" THEN @ + 1 ELSE @]
  /\ UNCHANGED <<k, pvcs, pods, serviceAccounts, namespaces, fn, id, args, initialize, initContainer, retry, calls>>

\* line 259: a caller enters StartDevContainer
StartDevContainer(p, i) ==
  /\ pc[p] = "idle"
  /\ calls < MaxCalls
  /\ pc' = [pc EXCEPT ![p] = "lookup"]
  /\ fn' = [fn EXCEPT ![p] = "Start"]
  /\ id' = [id EXCEPT ![p] = i]
  /\ retry' = [retry EXCEPT ![p] = FailedAtWait(i)]
  /\ calls' = calls + 1
  /\ UNCHANGED <<k, orch, args, initialize, initContainer, copyIdx, log, result, extFail>>

\* the invocation has returned; the caller is free for its next call
Return(p) ==
  /\ pc[p] = "done"
  /\ calls < MaxCalls
  /\ pc' = [pc EXCEPT ![p] = "idle"]
  /\ fn' = [fn EXCEPT ![p] = None]
  /\ id' = [id EXCEPT ![p] = None]
  /\ args' = [args EXCEPT ![p] = NoArgs]
  /\ initialize' = [initialize EXCEPT ![p] = FALSE]
  /\ initContainer' = [initContainer EXCEPT ![p] = Nil]
  /\ copyIdx' = [copyIdx EXCEPT ![p] = 0]
  /\ log' = [log EXCEPT ![p] = <<>>]
  /\ result' = [result EXCEPT ![p] = None]
  /\ extFail' = [extFail EXCEPT ![p] = FALSE]
  /\ retry' = [retry EXCEPT ![p] = FALSE]
  /\ UNCHANGED <<k, orch, calls>>

\* the pod of a workspace is removed (stopped) outside of Run and Start
StopDevContainer(i) ==
  /\ pods[i] # Nil
  /\ pods' = [pods EXCEPT ![i] = Nil]
  /\ UNCHANGED <<k, pvcs, serviceAccounts, namespaces, copied, pc, fn, id, args,
                 initialize, initContainer, copyIdx, log, result, extFail, retry, calls>>

Next ==
  \/ \E p \in Procs, a \in RunArgs : RunDevContainer(p, a)
  \/ \E p \in Procs, i \in Ids : StartDevContainer(p, i)
  \/ \E p \in Procs : CreateNamespace(p)
  \/ \E p \in Procs : GetDevContainerPvc(p)
  \/ \E p \in Procs : CreatePersistentVolumeClaim(p)
  \/ \E p \in Procs : RunContainerPrepare(p)
  \/ \E p \in Procs : CreateServiceAccount(p)
  \/ \E p \in Procs : CreatePod(p)
  \/ \E p \in Procs : WaitPodRunning(p)
  \/ \E p \in Procs : CopyToPod(p)
  \/ \E p \in Procs : Return(p)
  \/ \E i \in Ids : StopDevContainer(i)

Spec == Init /\ [][Next]_vars

\* ------------------------------------------------------- the claims' terms
Entries(p) == DOMAIN log[p]

Issued(p, op) == \E n \in Entries(p) : log[p][n].op = op

Succeeded(p, op) == \E n \in Entries(p) : log[p][n].op = op /\ log[p][n].ok

Rejected(p, op) == \E n \in Entries(p) : log[p][n].op = op /\ ~log[p][n].ok

\* the lookup of the invocation answered, and there was a claim / no claim
FoundExisting(p) ==
  \E n \in Entries(p) : log[p][n].op = "get pvc" /\ log[p][n].ok /\ log[p][n].arg # Nil

FoundNothing(p) ==
  \E n \in Entries(p) : log[p][n].op = "get pvc" /\ log[p][n].ok /\ log[p][n].arg = Nil

\* the invocation is inside runContainer
InRunContainer(p) ==
  \/ pc[p] \in {"prepare", "sa", "submit", "wait", "copy"}
  \/ pc[p] = "done" /\ (FoundExisting(p) \/ Succeeded(p, "create pvc"))

\* the inputs of runContainer are known: Run has them as arguments, Start reads
\* them from the claim it found
InputsKnown(p) == (fn[p] = "Run" /\ id[p] # None) \/ (fn[p] = "Start" /\ FoundExisting(p))

EmptyTarget(p) == InputsKnown(p) /\ ParseMount(args[p].workspaceMount).Target = ""

RunContainerCalls == {"create sa", "create pod", "wait pod", "cp"}

\* --------------------------------------------------------------------- C1
\* C1: a Run whose lookup finds an existing claim issues no claim creation and
\* no copy, and runs runContainer with initialize = false.
C1_IdempotentRestart ==
  \A p \in Procs :
    (fn[p] = "Run" /\ FoundExisting(p)) =>
      /\ ~Issued(p, "create pvc")
      /\ ~Issued(p, "cp")
      /\ initialize[p] = FALSE
      /\ pc[p] # "createPvc" /\ pc[p] # "copy"

C1_Witness ==
  \E p \in Procs : /\ fn[p] = "Run" /\ FoundExisting(p)
                    /\ pc[p] = "done" /\ result[p] = "nil"
                    /\ Succeeded(p, "wait pod")

\* --------------------------------------------------------------------- C2
\* C2 as stated: a call with an empty workspace mount target that fails with
\* the configuration error has issued no remote call at all.
C2_NoRemoteCallBeforeValidation ==
  \A p \in Procs :
    (pc[p] = "done" /\ EmptyTarget(p) /\ result[p] = "ConfigError") => log[p] = <<>>

\* C2 amended: a call with an empty workspace mount target that reaches
\* runContainer fails there with the configuration error, and no call with an
\* empty target ever issues a service account creation, a pod creation, a wait
\* or a copy; the lookup (and for Run the namespace and claim creation) were
\* issued before.
C2_ValidationBeforeRunContainerCalls ==
  \A p \in Procs :
    EmptyTarget(p) =>
      /\ \A n \in Entries(p) : log[p][n].op \notin RunContainerCalls
      /\ pc[p] \notin {"sa", "submit", "wait", "copy"}
      /\ (pc[p] = "done" /\ InRunContainer(p)) => result[p] = "ConfigError"
      /\ (pc[p] = "done" /\ result[p] = "ConfigError") => Succeeded(p, "get pvc")

C2_Witness ==
  \E p, q \in Procs :
     /\ fn[p] = "Start" /\ EmptyTarget(p) /\ pc[p] = "done" /\ result[p] = "ConfigError"
     /\ fn[q] = "Run" /\ EmptyTarget(q) /\ pc[q] = "done" /\ result[q] = "ConfigError"
     /\ Succeeded(q, "create pvc")

\* --------------------------------------------------------------------- C3
\* C3: a Start whose lookup finds no claim returns the not-found error having
\* issued the lookup only; no Start ever issues a namespace or claim creation.
C3_StartNeverCreates ==
  \A p \in Procs :
    fn[p] = "Start" =>
      /\ ~Issued(p, "create pvc")
      /\ ~Issued(p, "create ns")
      /\ pc[p] \notin {"ns", "createPvc"}
      /\ FoundNothing(p) =>
           /\ pc[p] = "done"
           /\ result[p] = "NotFoundError"
           /\ Len(log[p]) = 1

C3_Witness ==
  \E p \in Procs : /\ fn[p] = "Start" /\ FoundNothing(p)
                    /\ pc[p] = "done" /\ result[p] = "NotFoundError"
                    /\ pvcs[id[p]] = Nil /\ pods[id[p]] = Nil

\* --------------------------------------------------------------------- C4
\* C4: in every invocation the pod is created only after the claim of the
\* same id was found or created, the wait follows the successful creation of
\* the pod, and a copy follows the successful wait; a remote call of
\* runContainer is issued only when the call before it has returned success.
C4_StepOrdering ==
  \A p \in Procs : \A n \in Entries(p) :
    /\ log[p][n].op = "create pod" =>
         /\ \E m \in 1..(n - 1) :
              \/ log[p][m].op = "get pvc" /\ log[p][m].ok /\ log[p][m].arg # Nil
              \/ log[p][m].op = "create pvc" /\ log[p][m].ok /\ log[p][m].arg = id[p]
         /\ pvcs[id[p]] # Nil
         /\ log[p][n].arg.ClaimName = id[p]
    /\ log[p][n].op = "wait pod" =>
         n > 1 /\ log[p][n - 1].op = "create pod" /\ log[p][n - 1].ok
    /\ log[p][n].op = "cp" =>
         /\ n > 1 /\ log[p][n - 1].op \in {"wait pod", "cp"} /\ log[p][n - 1].ok
         /\ Succeeded(p, "wait pod")
    /\ (log[p][n].op \in RunContainerCalls /\ n > 1 /\ log[p][n - 1].op # "create ns") =>
         log[p][n - 1].ok

C4_Witness ==
  \E p \in Procs : /\ pc[p] = "done" /\ result[p] = "nil"
                    /\ Succeeded(p, "create pvc") /\ Succeeded(p, "create sa")
                    /\ Len(SelectSeq(log[p], LAMBDA e : e.op = "cp")) = 3

\* --------------------------------------------------------------------- C5
\* C5: of the concurrent Runs of one id at most one creates the claim; a Run
\* whose claim creation is rejected returns the error and goes on to neither
\* the pod creation nor the copy.
C5_OneCreator ==
  /\ \A p, q \in Procs :
       (Succeeded(p, "create pvc") /\ Succeeded(q, "create pvc") /\ id[p] = id[q]) => p = q
  /\ \A p \in Procs :
       Rejected(p, "create pvc") =>
         /\ pc[p] = "done"
         /\ result[p] = "CreateError"
         /\ log[p][Len(log[p])].op = "create pvc"
         /\ initialize[p] = FALSE

C5_Witness ==
  \E p, q \in Procs :
     /\ p # q /\ id[p] = id[q]
     /\ FoundNothing(p) /\ FoundNothing(q)
     /\ Succeeded(p, "create pvc")
     /\ Rejected(q, "create pvc") /\ ~extFail[q]

\* --------------------------------------------------------------------- C6
\* the copies the seeding of the inputs a has to make: the workspace mount,
\* then the declared bind mounts in declared order
ExpectedCopies(workspaceMount, mergedConfig) ==
  <<ParseMount(workspaceMount)>> \o SelectSeq(mergedConfig.Mounts, LAMBDA mnt : mnt.Type = "bind")

Copies(p) == SelectSeq(log[p], LAMBDA e : e.op = "cp")

IsPrefix(s1, s2) == Len(s1) <= Len(s2) /\ \A n \in DOMAIN s1 : s1[n] = s2[n]

\* C6: the copies of an invocation are issued by the Run that created the claim
\* only, they are the workspace mount followed by the bind mounts in declared
\* order, all 1 + #bind of them when the Run succeeds; an invocation that did
\* not create the claim issues none, so the content of a claim is copied once.
C6_SeedingOrderAndCount ==
  /\ \A p \in Procs :
       /\ ~(fn[p] = "Run" /\ Succeeded(p, "create pvc")) => Copies(p) = <<>>
       /\ Copies(p) # <<>> =>
            LET exp == ExpectedCopies(args[p].workspaceMount, args[p].mergedConfig)
            IN /\ Len(Copies(p)) <= Len(exp)
               /\ \A n \in DOMAIN Copies(p) : Copies(p)[n].arg = exp[n]
       /\ (pc[p] = "done" /\ result[p] = "nil" /\ Succeeded(p, "create pvc")) =>
            LET exp == ExpectedCopies(args[p].workspaceMount, args[p].mergedConfig)
                binds == {n \in DOMAIN args[p].mergedConfig.Mounts :
                            args[p].mergedConfig.Mounts[n].Type = "bind"}
            IN /\ Len(Copies(p)) = 1 + Cardinality(binds)
               /\ \A n \in DOMAIN Copies(p) : Copies(p)[n].ok /\ Copies(p)[n].arg = exp[n]
  /\ \A i \in Ids :
       IF pvcs[i] = Nil THEN copied[i] = <<>>
       ELSE IsPrefix(copied[i],
                     ExpectedCopies(pvcs[i][1].WorkspaceMount, pvcs[i][1].MergedConfig))

C6_Witness ==
  \E p, q \in Procs :
     /\ pc[p] = "done" /\ result[p] = "nil" /\ Succeeded(p, "create pvc")
     /\ args[p].mergedConfig = mergedB
     /\ Len(Copies(p)) = 3
     /\ pc[q] = "done" /\ result[q] = "nil" /\ FoundExisting(q) /\ id[q] = id[p]

\* --------------------------------------------------------------------- C7
\* the inputs of runContainer pass its local checks
InputsValid(p) ==
  /\ InputsKnown(p)
  /\ ParseMount(args[p].workspaceMount).Target # ""
  /\ parseLabels(k.NodeSelector).ok

\* C7: an invocation that follows a Run that failed at the readiness wait and
\* left the claim and the pod in place, and in which no remote call fails for
\* an outside reason, completes successfully.
C7_ResumableRetry ==
  \A p \in Procs :
    (retry[p] /\ pc[p] = "done" /\ ~extFail[p] /\ InputsValid(p)) => result[p] = "nil"

\* --------------------------------------------------------------------- C8
\* the pod is the translation of the configuration recorded in the snapshot
FromSnapshot(pod, info) ==
  LET kept == SelectSeq(info.MergedConfig.Mounts,
                        LAMBDA mnt : mnt.Type = "bind" \/ mnt.Type = "volume")
  IN /\ pod.Image = info.ImageName
     /\ pod.Privileged = info.MergedConfig.Privileged
     /\ pod.Capabilities = IF info.MergedConfig.CapAdd = <<>> THEN Nil
                           ELSE <<[Add |-> info.MergedConfig.CapAdd]>>
     /\ Len(pod.VolumeMounts) = 1 + Len(kept)
     /\ pod.VolumeMounts[1].MountPath = ParseMount(info.WorkspaceMount).Target
     /\ \A n \in DOMAIN kept : pod.VolumeMounts[n + 1].MountPath = kept[n].Target

\* C8 as stated: every pod submitted by a Run or Start that found the claim
\* is built from the snapshot recorded on the claim.
C8_RestartUsesSnapshot ==
  \A p \in Procs : \A n \in Entries(p) :
    (log[p][n].op = "create pod" /\ log[p][n].ok /\ FoundExisting(p)) =>
      FromSnapshot(log[p][n].arg, pvcs[id[p]][1])

\* C8 amended: every pod submitted by a Start is built from the snapshot
\* recorded on the claim.
C8_StartUsesSnapshot ==
  \A p \in Procs : \A n \in Entries(p) :
    (log[p][n].op = "create pod" /\ fn[p] = "Start") =>
      /\ FoundExisting(p)
      /\ FromSnapshot(log[p][n].arg, pvcs[id[p]][1])

C8_Witness ==
  \E p, q \in Procs :
     /\ fn[p] = "Start" /\ Succeeded(p, "create pod")
     /\ fn[q] = "Run" /\ id[q] = id[p] /\ FoundExisting(q) /\ Succeeded(q, "create pod")
     /\ args[q].imageName # pvcs[id[p]][1].ImageName
     /\ args[p].imageName = pvcs[id[p]][1].ImageName

\* --------------------------------------------------------------------- C9
\* C9: the snapshot of a claim is written once, by the Run whose claim creation
\* succeeds, with the inputs of that Run, and never changes afterwards; a
\* Start and a Run that found the claim issue no claim creation.
C9_WriteOnce ==
  /\ [](\A p \in Procs :
          (fn[p] = "Start" \/ FoundExisting(p)) =>
            ~Issued(p, "create pvc") /\ pc[p] # "createPvc")
  /\ [][\A i \in Ids :
          /\ pvcs[i] # Nil => pvcs'[i] = pvcs[i]
          /\ pvcs'[i] # pvcs[i] =>
               \E p \in Procs :
                 /\ fn[p] = "Run" /\ id[p] = i /\ pc[p] = "createPvc"
                 /\ pvcs'[i] = <<DevContainerInfo(args[p])>>
                 /\ log'[p] = Append(log[p], Call("create pvc", TRUE, i))]_vars

C9_Witness ==
  \E p, q \in Procs :
     /\ fn[p] = "Start" /\ FoundExisting(p) /\ pc[p] = "done" /\ result[p] = "nil"
     /\ fn[q] = "Run" /\ FoundExisting(q) /\ pc[q] = "done" /\ id[q] = id[p]
     /\ args[q].imageName # pvcs[id[q]][1].ImageName
     /\ args[q].workspaceMount # pvcs[id[q]][1].WorkspaceMount

\* -------------------------------------------------------------------- C10
\* C10: a failed copy is the last remote call of its invocation, which
\* returns the copy error; the step that fails changes nothing at the
\* orchestrator, and no step of the driver removes a claim, a pod or a copy
\* already made.
C10_CopyFailure ==
  /\ [](\A p \in Procs : \A n \in Entries(p) :
          (log[p][n].op = "cp" /\ ~log[p][n].ok) =>
            /\ n = Len(log[p])
            /\ pc[p] = "done"
            /\ result[p] = "CopyError")
  /\ [][/\ (\E p \in Procs : result'[p] = "CopyError" /\ result[p] # "CopyError") =>
            UNCHANGED orch
        /\ pc' # pc =>
            \A i \in Ids : /\ pvcs[i] # Nil => pvcs'[i] = pvcs[i]
                           /\ pods[i] # Nil => pods'[i] = pods[i]
                           /\ IsPrefix(copied[i], copied'[i])]_vars

C10_Witness ==
  \E p \in Procs :
     /\ pc[p] = "done" /\ result[p] = "CopyError"
     /\ Len(Copies(p)) = 2 /\ Copies(p)[1].ok /\ ~Copies(p)[2].ok
     /\ Len(ExpectedCopies(args[p].workspaceMount, args[p].mergedConfig)) = 3
     /\ Len(copied[id[p]]) = 1
     /\ pods[id[p]] # Nil /\ pvcs[id[p]] # Nil

\* -------------------------------------------------------------------- C11
Failed(r) == r # None /\ r # "nil"

\* C11: a failed step other than the namespace creation is the last remote
\* call of its invocation, which returns an error; the failing step changes
\* nothing at the orchestrator, and an invocation that has returned issues no
\* remote call.
C11_AbortWithoutCleanup ==
  /\ [](\A p \in Procs :
          /\ \A n \in Entries(p) :
               (~log[p][n].ok /\ log[p][n].op # "create ns") =>
                 n = Len(log[p]) /\ pc[p] = "done" /\ Failed(result[p])
          /\ Failed(result[p]) => pc[p] = "done")
  /\ [][\A p \in Procs :
          /\ (~Failed(result[p]) /\ Failed(result'[p])) => UNCHANGED orch
          /\ (pc[p] = "done" /\ pc'[p] = "done") =>
               log'[p] = log[p] /\ result'[p] = result[p]]_vars

C11_Witness ==
  \E p \in Procs :
     /\ pc[p] = "done" /\ result[p] = "StartupError"
     /\ Succeeded(p, "create pvc") /\ Succeeded(p, "create sa") /\ Succeeded(p, "create pod")
     /\ pvcs[id[p]] # Nil /\ pods[id[p]] # Nil /\ k.ServiceAccount \in serviceAccounts

\* -------------------------------------------------------------------- C12
\* C12: every Start runs runContainer with initialize = false: it issues no
\* copy and the pod it submits has no init container.
C12_StartNeverSeeds ==
  \A p \in Procs :
    fn[p] = "Start" =>
      /\ initialize[p] = FALSE
      /\ Copies(p) = <<>>
      /\ pc[p] # "copy"
      /\ \A n \in Entries(p) :
           log[p][n].op = "create pod" => log[p][n].arg.InitContainers = <<>>

C12_Witness ==
  \E p \in Procs :
     /\ fn[p] = "Start" /\ pc[p] = "done" /\ result[p] = "nil"
     /\ Succeeded(p, "create pod") /\ Succeeded(p, "wait pod")
     /\ pvcs[id[p]][1].MergedConfig = mergedB
     /\ copied[id[p]] = <<>>

\* -------------------------------------------------------------------- C13
Supported(mnt) == mnt.Type = "bind" \/ mnt.Type = "volume"

\* the place of the declared mount i among the entries of the pod's mount list
Rank(mounts, i) == 1 + Cardinality({j \in 1..i : Supported(mounts[j])})

ExpectedSubPath(slot, mnt) ==
  IF mnt.Type = "volume" /\ mnt.Source # "" THEN "devpod/" \o mnt.Source
  ELSE "devpod/" \o ToString(slot)

\* C13: in every submitted pod the workspace mount has the sub-path of slot 0
\* and the declared mount at position i (from 1) that of slot i, whatever was
\* skipped before it: devpod/<source> for a volume mount with a source,
\* devpod/<slot> otherwise.
C13_SubPathMapping ==
  \A p \in Procs : \A n \in Entries(p) :
    log[p][n].op = "create pod" =>
      LET vms == log[p][n].arg.VolumeMounts
          mounts == args[p].mergedConfig.Mounts
      IN /\ vms[1].SubPath = ExpectedSubPath(0, ParseMount(args[p].workspaceMount))
         /\ \A i \in DOMAIN mounts :
              Supported(mounts[i]) =>
                /\ Rank(mounts, i) \in DOMAIN vms
                /\ vms[Rank(mounts, i)].SubPath = ExpectedSubPath(i, mounts[i])
                /\ vms[Rank(mounts, i)].MountPath = mounts[i].Target

C13_Witness ==
  \E p \in Procs : \E n \in Entries(p) :
     /\ log[p][n].op = "create pod"
     /\ args[p].mergedConfig.Mounts = <<mTmpfs, mVolume, mBind, mVolumeAnon, mBindLib, mVolumeThree>>
     /\ log[p][n].arg.VolumeMounts[1].SubPath = "devpod/0"
     /\ log[p][n].arg.VolumeMounts[2].SubPath = "devpod/cache"
     /\ log[p][n].arg.VolumeMounts[3].SubPath = "devpod/3"
     /\ log[p][n].arg.VolumeMounts[4].SubPath = "devpod/4"

\* -------------------------------------------------------------------- C14
\* an error returned by the invocation has a cause that is not a mount type
HasCause(p) ==
  \/ result[p] \in {"IdError", "NotFoundError"}
  \/ /\ result[p] \in {"LookupError", "CreateError", "StartupError", "CopyError"}
     /\ log[p] # <<>> /\ ~log[p][Len(log[p])].ok
  \/ result[p] = "ConfigError" /\ (EmptyTarget(p) \/ ~parseLabels(k.NodeSelector).ok)
  \/ result[p] = "InitContainerError" /\ initialize[p]

\* C14: the mount list of every submitted pod is the workspace mount followed
\* by the declared bind and volume mounts in declared order; a mount of
\* another type is in neither the mount list nor the copies, and no
\* invocation fails because of it.
C14_UnsupportedMountsSkipped ==
  \A p \in Procs :
    /\ \A n \in Entries(p) :
         /\ log[p][n].op = "create pod" =>
              LET vms == log[p][n].arg.VolumeMounts
                  kept == <<ParseMount(args[p].workspaceMount)>> \o
                          SelectSeq(args[p].mergedConfig.Mounts, Supported)
              IN /\ Len(vms) = Len(kept)
                 /\ \A i \in DOMAIN vms : vms[i].MountPath = kept[i].Target
         /\ log[p][n].op = "cp" =>
              \/ log[p][n].arg = ParseMount(args[p].workspaceMount)
              \/ log[p][n].arg.Type = "bind"
    /\ (pc[p] = "done" /\ Failed(result[p])) => HasCause(p)

C14_Witness ==
  \E p \in Procs : \E n \in Entries(p) :
     /\ pc[p] = "done" /\ result[p] = "nil"
     /\ \E i \in DOMAIN args[p].mergedConfig.Mounts : ~Supported(args[p].mergedConfig.Mounts[i])
     /\ log[p][n].op = "create pod" /\ log[p][n].ok
     /\ Len(log[p][n].arg.VolumeMounts) = Len(args[p].mergedConfig.Mounts)
     /\ Len(Copies(p)) = 3

\* -------------------------------------------------------------------- C15
\* C15: the namespace creation is issued only by a Run under a configuration
\* that asks for it, once and as the first remote call; whatever its outcome
\* the Run goes on to the lookup with nothing else changed and never returns
\* because of it. A Start never issues it.
C15_NamespaceBestEffort ==
  /\ [](\A p \in Procs :
          /\ Issued(p, "create ns") =>
               /\ fn[p] = "Run" /\ NamespaceWanted(k)
               /\ \A n \in Entries(p) :
                    log[p][n].op = "create ns" => n = 1 /\ log[p][n].arg = k.namespace
          /\ (fn[p] = "Run" /\ NamespaceWanted(k) /\ log[p] # <<>>) =>
               log[p][1].op = "create ns"
          /\ (pc[p] = "lookup" /\ fn[p] = "Run") =>
               (NamespaceWanted(k) <=> Issued(p, "create ns"))
          /\ (pc[p] = "done" /\ log[p] # <<>>) => log[p][Len(log[p])].op # "create ns")
  /\ [][\A p \in Procs :
          (pc[p] = "ns" /\ pc'[p] # "ns") =>
            /\ pc'[p] = "lookup" /\ result'[p] = None
            /\ UNCHANGED <<pvcs, pods, serviceAccounts, copied, args, initialize, id>>]_vars

C15_Witness ==
  \E p \in Procs :
     /\ fn[p] = "Run" /\ pc[p] = "done" /\ result[p] = "nil"
     /\ log[p][1].op = "create ns" /\ ~log[p][1].ok
     /\ k.namespace \notin namespaces

\* -------------------------------------------------------------------- C16
\* C16: with a service account configured, a pod is submitted only after the
\* service account creation of the same invocation succeeded, and a failed
\* creation returns the error with no pod submitted; with none configured no
\* service account creation is issued.
C16_ServiceAccountFirst ==
  \A p \in Procs :
    /\ \A n \in Entries(p) :
         log[p][n].op = "create pod" =>
           /\ log[p][n].arg.ServiceAccountName = k.ServiceAccount
           /\ k.ServiceAccount # "" =>
                \E m \in 1..(n - 1) :
                  /\ log[p][m].op = "create sa" /\ log[p][m].ok
                  /\ log[p][m].arg = k.ServiceAccount
    /\ Rejected(p, "create sa") =>
         /\ pc[p] = "done" /\ result[p] = "CreateError"
         /\ ~Issued(p, "create pod")
    /\ k.ServiceAccount = "" =>
         ~Issued(p, "create sa") /\ pc[p] # "sa" /\ serviceAccounts = {}

C16_Witness ==
  \E p, q \in Procs :
     /\ Rejected(p, "create sa") /\ pc[p] = "done"
     /\ Succeeded(q, "create sa") /\ Succeeded(q, "create pod")
     /\ pods[id[q]] # Nil /\ pods[id[q]][1].ServiceAccountName = "devpod-sa"

\* -------------------------------------------------------------------- C17
\* C17: whenever an invocation returns success, the whole seeding of the claim
\* of its id (the workspace copy and every bind mount copy) has been made.
C17_InitializedImpliesSeeded ==
  \A p \in Procs :
    (pc[p] = "done" /\ result[p] = "nil") =>
      copied[id[p]] = ExpectedCopies(pvcs[id[p]][1].WorkspaceMount, pvcs[id[p]][1].MergedConfig)

\* -------------------------------------------------------------------- C18
\* C18: initialize becomes true only in the step that creates the claim, so
\* only the Run whose claim creation succeeded runs with initialize = true;
\* it is the only invocation that issues copies, and it issues the copy of
\* each mount at most once.
C18_AtMostOneSeeder ==
  /\ [](\A p, q \in Procs :
          /\ initialize[p] => fn[p] = "Run" /\ Succeeded(p, "create pvc")
          /\ Copies(p) # <<>> => initialize[p]
          /\ (initialize[p] /\ initialize[q] /\ id[p] = id[q]) => p = q
          /\ Copies(p) # <<>> =>
               Len(Copies(p)) <= Len(ExpectedCopies(args[p].workspaceMount,
                                                    args[p].mergedConfig)))
  /\ [][\A p \in Procs :
          /\ (~initialize[p] /\ initialize'[p]) =>
               pvcs[id[p]] = Nil /\ pvcs'[id[p]] # Nil
          /\ \A i \in Ids :
               copied'[i] # copied[i] =>
                 /\ pvcs[i] # Nil
                 /\ Len(copied'[i]) = Len(copied[i]) + 1
                 /\ \E q \in Procs : id[q] = i /\ initialize[q] /\ pc[q] = "copy"
                                       /\ copyIdx[q] = Len(copied'[i])]_vars

C18_Witness ==
  \E p, q \in Procs :
     /\ p # q /\ id[p] = id[q]
     /\ initialize[p] /\ Len(Copies(p)) >= 1 /\ Len(copied[id[p]]) >= 1
     /\ fn[q] = "Run" /\ FoundExisting(q) /\ ~initialize[q]
     /\ Succeeded(q, "wait pod")

\* -------------------------------------------------------------------- C19
\* C19 as stated: a submitted pod has an init container exactly when the
\* invocation is the Run that created the claim; an invocation that fails to
\* build the init container has issued no remote call of runContainer.
C19_InitContainerIffFirstRun ==
  \A p \in Procs :
    /\ \A n \in Entries(p) :
         log[p][n].op = "create pod" =>
           (log[p][n].arg.InitContainers # <<>> <=>
              (fn[p] = "Run" /\ Succeeded(p, "create pvc")))
    /\ result[p] = "InitContainerError" =>
         /\ pc[p] = "done" /\ Succeeded(p, "create pvc")
         /\ \A n \in Entries(p) : log[p][n].op \notin RunContainerCalls

\* C19 amended: a submitted pod has an init container only when the
\* invocation is the Run that created the claim; every submitted pod carries
\* the list held in initContainer, which for that Run is a list that
\* getInitContainer returned without error for the invocation's merged config
\* and image (possibly the empty one) and is nil for every other invocation;
\* an invocation that fails to build the init container is done, is the Run
\* that created the claim, and has issued no remote call of runContainer.
C19_InitContainerOnlyFirstRun ==
  \A p \in Procs :
    /\ \A n \in Entries(p) :
         log[p][n].op = "create pod" =>
           /\ log[p][n].arg.InitContainers = initContainer[p]
           /\ log[p][n].arg.InitContainers # <<>> =>
                (fn[p] = "Run" /\ Succeeded(p, "create pvc"))
           /\ (fn[p] = "Run" /\ Succeeded(p, "create pvc")) =>
                \E r \in getInitContainer(args[p].mergedConfig, args[p].imageName) :
                   ~r.err /\ log[p][n].arg.InitContainers = r.containers
    /\ initContainer[p] # <<>> => (fn[p] = "Run" /\ Succeeded(p, "create pvc"))
    /\ result[p] = "InitContainerError" =>
         /\ pc[p] = "done" /\ Succeeded(p, "create pvc")
         /\ \A n \in Entries(p) : log[p][n].op \notin RunContainerCalls

\* the Run that created the claim has submitted a pod with the init container
\* getInitContainer returned, and an invocation that found the claim has
\* had a pod accepted that has none
C19_Witness ==
  \E p, q \in Procs : \E n \in Entries(p), m \in Entries(q) :
     /\ Succeeded(p, "create pvc")
     /\ log[p][n].op = "create pod" /\ log[p][n].arg.InitContainers # <<>>
     /\ log[p][n].arg.InitContainers = initContainer[p]
     /\ FoundExisting(q)
     /\ log[q][m].op = "create pod" /\ log[q][m].ok /\ log[q][m].arg.InitContainers = <<>>

\* -------------------------------------------------------------------- C20
\* C20: two different entries of the mount list of a submitted pod have
\* different sub-paths, unless both are volume mounts with the same non-empty
\* source.
C20_SubPathSeparation ==
  \A p \in Procs : \A n \in Entries(p) :
    log[p][n].op = "create pod" =>
      LET vms == log[p][n].arg.VolumeMounts
          kept == <<ParseMount(args[p].workspaceMount)>> \o
                  SelectSeq(args[p].mergedConfig.Mounts, Supported)
      IN \A i, j \in DOMAIN vms :
           (i # j /\ vms[i].SubPath = vms[j].SubPath) =>
             /\ kept[i].Type = "volume" /\ kept[j].Type = "volume"
             /\ kept[i].Source # "" /\ kept[i].Source = kept[j].Source
====
